---- MODULE Spec2Model ----
(***************************************************************************)
(* Greenhouse Data Extractor (src/extractor.py): the link-following        *)
(* paginator, the entity store with its merged index, and the attachment   *)
(* downloader, as one state machine over the cache directory.              *)
(*                                                                         *)
(* A Python str is a sequence of one-character strings; an Optional value  *)
(* is <<>> (None) or <<v>>.                                                *)
(***************************************************************************)
EXTENDS Integers, Sequences, FiniteSets, TLC

(***************************************************************************)
(* Bounds of the model.                                                    *)
(***************************************************************************)
\* pages the upstream serves for one fetch
MaxPages == 2
\* records on one page
MaxPerPage == 2
\* ticks of the wall clock (datetime.now(), second precision)
MaxTime == 2
\* top-level operations started in one behaviour
MaxOps == 2
\* process crashes in one behaviour
MaxCrashes == 1
\* the largest gap set handed to print_category
MaxMembers == 27
\* attachment sync runs in one behaviour
MaxRuns == 3
\* files removed from the attachment subtree in one behaviour
MaxTamper == 1

(***************************************************************************)
(* Python values.                                                          *)
(***************************************************************************)
None == <<>>
Some(v) == <<v>>
IsNone(o) == o = <<>>
Val(o) == o[1]

\* s[a:] for a >= 0
DropFirst(s, a) == SubSeq(s, a + 1, Len(s))
\* s[1:-1]
StripEnds(s) == SubSeq(s, 2, Len(s) - 1)
StartsWith(s, p) == Len(s) >= Len(p) /\ SubSeq(s, 1, Len(p)) = p
EndsWith(s, p) == Len(s) >= Len(p) /\ SubSeq(s, Len(s) - Len(p) + 1, Len(s)) = p
\* c in s, for a one-character c
Contains(s, c) == \E i \in 1..Len(s) : s[i] = c
\* s.replace(a, b), for one-character a and b
Replace(s, a, b) == [i \in 1..Len(s) |-> IF s[i] = a THEN b ELSE s[i]]

\* s.find(sep) from position i (1-based), 0 when absent
RECURSIVE FindFrom(_, _, _)
FindFrom(s, sep, i) ==
    IF i + Len(sep) - 1 > Len(s) THEN 0
    ELSE IF SubSeq(s, i, i + Len(sep) - 1) = sep THEN i
    ELSE FindFrom(s, sep, i + 1)

\* s.split(sep)
RECURSIVE Split(_, _)
Split(s, sep) ==
    LET j == FindFrom(s, sep, 1) IN
    IF j = 0 THEN <<s>>
    ELSE <<SubSeq(s, 1, j - 1)>> \o Split(DropFirst(s, j + Len(sep) - 1), sep)

\* the elements of a list
Range(s) == {s[i] : i \in 1..Len(s)}
\* the concatenation of a sequence of sequences
RECURSIVE Concat(_)
Concat(ss) == IF Len(ss) = 0 THEN <<>> ELSE ss[1] \o Concat(Tail(ss))

\* str(n) for a natural number n
Digit(d) == <<"0", "1", "2", "3", "4", "5", "6", "7", "8", "9">>[d + 1]
RECURSIVE Str(_)
Str(n) == IF n < 10 THEN <<Digit(n)>> ELSE Str(n \div 10) \o <<Digit(n % 10)>>

(***************************************************************************)
(* parse_link and select_link.                                             *)
(***************************************************************************)
Comma == <<",">>
SemiSp == <<";", " ">>
Lt == <<"<">>
Gt == <<">">>
RelEq == <<"r", "e", "l", "=">>
Quote == <<"\"">>
NextRel == <<"n", "e", "x", "t">>

\* one iteration of parse_link's loop: the entry's (uri, rel), or the ValueError
ParseEntry(d) ==
    LET parts == Split(d, SemiSp) IN
    IF Len(parts) # 2 THEN [ok |-> FALSE, uri |-> <<>>, rel |-> <<>>]
    ELSE IF ~(StartsWith(parts[1], Lt) /\ EndsWith(parts[1], Gt))
         THEN [ok |-> FALSE, uri |-> <<>>, rel |-> <<>>]
    ELSE IF ~StartsWith(parts[2], RelEq)
         THEN [ok |-> FALSE, uri |-> <<>>, rel |-> <<>>]
    ELSE [ok |-> TRUE, uri |-> StripEnds(parts[1]),
          rel |-> StripEnds(DropFirst(parts[2], 4))]

\* parse_link: [ok |-> TRUE, contents |-> the (uri, rel) pairs], or ok = FALSE
\* when an entry raises ValueError
ParseLink(link) ==
    LET ds == Split(link, Comma)
        es == [i \in 1..Len(ds) |-> ParseEntry(ds[i])]
    IN  IF \E i \in 1..Len(es) : ~es[i].ok
        THEN [ok |-> FALSE, contents |-> <<>>]
        ELSE [ok |-> TRUE,
              contents |-> [i \in 1..Len(es) |-> <<es[i].uri, es[i].rel>>]]

\* select_link: the uri of the first pair with the relation, or None
SelectLink(contents, rel_type) ==
    LET hits == {i \in 1..Len(contents) : contents[i][2] = rel_type} IN
    IF hits = {} THEN None
    ELSE Some(contents[CHOOSE i \in hits : \A j \in hits : i <= j][1])

(***************************************************************************)
(* The upstream link headers the model draws from.                         *)
(***************************************************************************)
U2 == <<"https://x/y?page=2">>
U3 == <<"https://x/y?page=3">>
LastRel == <<"l", "a", "s", "t">>
Entry(uri, rel) == Lt \o uri \o Gt \o SemiSp \o RelEq \o Quote \o rel \o Quote

\* well-formed headers, per the "<URI>; rel="TYPE"" format
GoodLinks ==
    { Entry(U2, NextRel),
      Entry(U3, LastRel),
      Entry(U2, NextRel) \o Comma \o Entry(U3, LastRel),
      Entry(U3, LastRel) \o Comma \o Entry(U2, NextRel) }

\* headers with an entry that deviates from the format
BadLinks ==
    { Lt \o U2 \o Gt \o <<";">> \o RelEq \o Quote \o NextRel \o Quote,
      U2 \o SemiSp \o RelEq \o Quote \o NextRel \o Quote,
      Entry(U2, NextRel) \o SemiSp \o <<"x">>,
      Lt \o U2 \o Gt \o SemiSp \o Quote \o NextRel \o Quote,
      Lt \o U2 \o Gt \o SemiSp \o RelEq \o NextRel,
      Lt \o U2 \o Gt \o SemiSp \o RelEq \o <<"x">> \o NextRel \o <<"x">>,
      Entry(U2, NextRel) \o Comma \o <<" ">> \o Entry(U3, LastRel),
      Entry(U2, NextRel) \o Comma \o Lt \o U3 \o Gt \o SemiSp \o RelEq \o LastRel }

LinkHeaders == GoodLinks \cup BadLinks

(***************************************************************************)
(* Entities: a kind (rest_name), the payload and the retrieval timestamp.  *)
(***************************************************************************)
Jobs == "jobs"
Candidates == "candidates"
Kinds == {Jobs, Candidates}

BASE_URL == <<"https://harvest.greenhouse.io/v1/">>
\* rest_name as the characters of the request path
RestName(k) == <<k>>

\* the attachment descriptors of the upstream candidates
Att1 == [type |-> <<"resume">>, created_at |-> <<"10", ":", "00">>,
         filename |-> <<"cv.pdf">>, url |-> <<"https://a/1">>]
Att2 == [type |-> <<"cover_letter">>, created_at |-> <<"10", ":", "30">>,
         filename |-> <<"letter.pdf">>, url |-> <<"https://a/2">>]
Att3 == [type |-> <<"resume">>, created_at |-> <<"11", ":", "00">>,
         filename |-> <<"cv.pdf">>, url |-> <<"https://a/3">>]

\* the payloads the upstream serves, per kind
JobData ==
    { [id |-> 2, name |-> <<"Dev", ",", "Ops">>],
      [id |-> 10, name |-> <<"QA">>] }
CandidateData ==
    { [id |-> 1, first_name |-> Some(<<"Jane">>), last_name |-> Some(<<"Doe">>),
       attachments |-> <<Att1, Att2>>],
      [id |-> 2, first_name |-> None, last_name |-> Some(<<"Lee">>),
       attachments |-> <<Att3>>] }
Upstream(k) == IF k = Jobs THEN JobData ELSE CandidateData

\* Job.moniker
JobMoniker(data) == data.name

\* CandidateMoniker, a missing name taken as the empty string
CandidateMonikerAlwaysJoins(data) ==
    (IF IsNone(data.first_name) THEN <<>> ELSE Val(data.first_name))
    \o <<" ">>
    \o (IF IsNone(data.last_name) THEN <<>> ELSE Val(data.last_name))

\* Candidate.moniker
CandidateMoniker(data) ==
    LET first == data.first_name
        last == data.last_name
    IN  IF IsNone(first) THEN (IF IsNone(last) THEN <<>> ELSE Val(last))
        ELSE IF IsNone(last) THEN Val(first)
        ELSE Val(first) \o <<" ">> \o Val(last)

\* the other entity classes' rest_name
Applications == "applications"
Offers == "offers"
Pools == "prospect_pools"
Scorecards == "scorecards"
Sources == "sources"
\* the seven kinds
AllKinds == {Applications, Candidates, Jobs, Offers, Pools, Scorecards, Sources}

\* ApplicationMoniker, the job before the candidate
ApplicationMonikerJobFirst(data) ==
    LET candidate_id == data.candidate_id
        jdata == data.jobs
        job_id == IF Len(jdata) = 0 THEN <<>> ELSE Str(jdata[1].id)
    IN  job_id \o <<"/">> \o Str(candidate_id)

\* Application.moniker
ApplicationMoniker(data) ==
    LET candidate_id == data.candidate_id
        jdata == data.jobs
        job_id == IF Len(jdata) = 0 THEN <<>> ELSE Str(jdata[1].id)
    IN  Str(candidate_id) \o <<"/">> \o job_id

\* Offer.moniker
OfferMoniker(data) ==
    Str(data.candidate_id) \o <<"/">> \o Str(data.application_id)

\* Pool.moniker and Source.moniker
NameMoniker(data) == data.name

\* Scorecard.moniker
ScorecardMoniker(data) == Str(data.candidate_id)

\* e.moniker(), dispatched on the entity's class
Moniker(e) ==
    CASE e.rest_name = Jobs -> JobMoniker(e.data)
      [] e.rest_name = Candidates -> CandidateMoniker(e.data)
      [] e.rest_name = Applications -> ApplicationMoniker(e.data)
      [] e.rest_name = Offers -> OfferMoniker(e.data)
      [] e.rest_name = Scorecards -> ScorecardMoniker(e.data)
      [] OTHER -> NameMoniker(e.data)

\* datetime.now().isoformat(timespec='seconds') at clock value t
IsoTime(t) == <<"T">> \o Str(t)

\* the constructor calls of get_<kind>_from_greenhouse
MkEntities(k, datas, timestamp) ==
    [i \in 1..Len(datas) |->
        [rest_name |-> k, data |-> datas[i], retrieval_timestamp |-> timestamp]]

(***************************************************************************)
(* Maps (Python dicts) as functions with a finite domain.                  *)
(***************************************************************************)
EmptyMap == [x \in {} |-> x]
\* d.update(e)
Update(d, e) == e @@ d
\* d[k] = v
Put(d, k, v) == (k :> v) @@ d

(***************************************************************************)
(* csv.writer and csv.DictReader, field by field (delimiter ',',           *)
(* quotechar '"', minimal quoting).                                        *)
(***************************************************************************)
\* every '"' doubled
RECURSIVE DoubleQuotes(_)
DoubleQuotes(s) ==
    IF Len(s) = 0 THEN <<>>
    ELSE (IF Head(s) = "\"" THEN <<"\"", "\"">> ELSE <<Head(s)>>)
         \o DoubleQuotes(Tail(s))

\* every '""' read as one '"'
RECURSIVE UndoubleQuotes(_)
UndoubleQuotes(s) ==
    IF Len(s) = 0 THEN <<>>
    ELSE IF Len(s) >= 2 /\ s[1] = "\"" /\ s[2] = "\""
         THEN <<"\"">> \o UndoubleQuotes(DropFirst(s, 2))
    ELSE <<Head(s)>> \o UndoubleQuotes(Tail(s))

\* a field as csv.writer writes it
CsvField(s) ==
    IF Contains(s, ",") \/ Contains(s, "\"")
    THEN Quote \o DoubleQuotes(s) \o Quote
    ELSE s

\* a written field as csv.reader returns it
CsvValue(f) ==
    IF StartsWith(f, Quote) THEN UndoubleQuotes(StripEnds(f)) ELSE f

HeaderRow == << <<"id">>, <<"moniker">>, <<"timestamp">> >>

\* lexicographic order of strings of digits (the ids)
Ord(c) == CHOOSE d \in 0..9 : Digit(d) = c
RECURSIVE StrLess(_, _)
StrLess(a, b) ==
    IF Len(b) = 0 THEN FALSE
    ELSE IF Len(a) = 0 THEN TRUE
    ELSE IF Head(a) # Head(b) THEN Ord(Head(a)) < Ord(Head(b))
    ELSE StrLess(Tail(a), Tail(b))

\* sorted(keys)
RECURSIVE Sorted(_)
Sorted(S) ==
    IF S = {} THEN <<>>
    ELSE LET m == CHOOSE x \in S : \A y \in S \ {x} : StrLess(x, y)
         IN  <<m>> \o Sorted(S \ {m})

\* the data row write_index writes for the index entry v
IndexRow(v) ==
    LET m == IF Contains(v[2], ",") THEN Quote \o v[2] \o Quote ELSE v[2]
    IN  <<CsvField(v[1]), CsvField(m), CsvField(v[3])>>

\* IndexItems, in descending order of the keys
IndexItemsDescending(index) ==
    LET keys == Sorted(DOMAIN index)
    IN  [i \in 1..Len(keys) |->
            <<keys[Len(keys) + 1 - i], index[keys[Len(keys) + 1 - i]]>>]

\* write_index's index_items: the entries sorted by key
IndexItems(index) ==
    LET keys == Sorted(DOMAIN index)
    IN  [i \in 1..Len(keys) |-> <<keys[i], index[keys[i]]>>]

\* the rows write_index writes, in order: the header, then one per item
IndexRows(index_items) ==
    <<HeaderRow>> \o [i \in 1..Len(index_items) |-> IndexRow(index_items[i][2])]

\* the column of a field name in the header row DictReader read
Column(header, name) == CHOOSE i \in 1..Len(header) : header[i] = name

\* read_index on the rows of an index file (None: no file)
ReadRows(file) ==
    IF IsNone(file) \/ Len(Val(file)) = 0 THEN EmptyMap
    ELSE LET rows == Val(file)
             cid == Column(rows[1], <<"id">>)
             cmo == Column(rows[1], <<"moniker">>)
             cts == Column(rows[1], <<"timestamp">>)
             Triple(r) == <<CsvValue(r[cid]), CsvValue(r[cmo]), CsvValue(r[cts])>>
             keys == {CsvValue(rows[i][cid]) : i \in 2..Len(rows)}
             LastOf(k) == CHOOSE i \in 2..Len(rows) :
                             /\ CsvValue(rows[i][cid]) = k
                             /\ \A j \in (i + 1)..Len(rows) : CsvValue(rows[j][cid]) # k
         IN  [k \in keys |-> Triple(rows[LastOf(k)])]

\* read_index(cache_dir, rest_name)
ReadIndex(d, k) == ReadRows(d.index[k])

(***************************************************************************)
(* The state: the cache directory, the wall clock, the running process     *)
(* (its position and the locals of the function it is in), and the history *)
(* the properties refer to.                                                *)
(***************************************************************************)
VARIABLES
    disk,       \* the cache directory tree
    now,        \* the wall clock, in seconds
    pc,         \* the position of the running process; "idle": none runs
    err,        \* the exception that ended the operation, "" if none
    fetch,      \* get_paginated's locals
    reqlog,     \* the GET requests of the current fetch, in order
    resplog,    \* the responses to them
    save,       \* save_entities' and write_index's locals
    sync,       \* get_candidate_attachments' and download_candidate_attachment's locals
    ghost,      \* history: counters and snapshots
    other,      \* a second writer process, while it is not scheduled
    chk,        \* check_references' and print_category's locals
    stdout      \* the lines the running process printed

vars == <<disk, now, pc, err, fetch, reqlog, resplog, save, sync, ghost,
          other, chk, stdout>>

\* the empty cache directory
EmptyDisk ==
    [dirs |-> {},                       \* entity directories, by rest_name
     efiles |-> EmptyMap,               \* <<rest_name, id>> -> the payload in <id>.json,
                                        \* None while the file is written
     index |-> [k \in AllKinds |-> None],  \* the rows of index.csv, per rest_name
     adirs |-> {},                      \* attachment directories
     afiles |-> EmptyMap]               \* attachment path -> the bytes of the file

NoFetch == [query |-> "", items |-> <<>>, page |-> 0, next_uri |-> None,
            params |-> None, result |-> None]
NoSave == [entities |-> <<>>, rest_name |-> "", i |-> 0,
           new_entity_summary |-> EmptyMap, entity_summary |-> EmptyMap,
           rows |-> <<>>]
NoSync == [todo |-> <<>>, candidate_id |-> <<>>, atts |-> <<>>,
           skip |-> FALSE, response |-> None]
\* a process that is not scheduled: its position, exception and save locals
NoOther == [pc |-> "idle", err |-> "", save |-> NoSave]
NoCheck == [idx |-> [k \in AllKinds |-> EmptyMap],
            application_candidates |-> {}, application_jobs |-> {},
            application_pairs |-> EmptyMap,
            scorecard_candidates |-> {},
            offer_candidates |-> {}, offer_applications |-> {},
            offer_pairs |-> EmptyMap,
            category_title |-> "", members |-> <<>>]

Init ==
    /\ disk = EmptyDisk
    /\ now = 0
    /\ pc = "idle"
    /\ err = ""
    /\ fetch = NoFetch
    /\ reqlog = <<>>
    /\ resplog = <<>>
    /\ save = NoSave
    /\ sync = NoSync
    /\ other = NoOther
    /\ chk = NoCheck
    /\ stdout = <<>>
    /\ ghost = [nops |-> 0, nruns |-> 0, ncrash |-> 0, ntamper |-> 0,
                op |-> "", disk0 |-> EmptyDisk,
                saved |-> [k \in AllKinds |-> EmptyMap], allok |-> TRUE,
                ixold |-> [k \in AllKinds |-> None],
                ixnew |-> [k \in AllKinds |-> None],
                downloaded |-> EmptyMap, partial |-> {},
                file |-> <<>>, marker |-> <<>>, had |-> <<FALSE, FALSE>>,
                pre |-> EmptyDisk, dlgets |-> 0, rungets |-> 0,
                afterok |-> FALSE, prevok |-> FALSE,
                prevfetch |-> None, overlap |-> FALSE]

(***************************************************************************)
(* The fields of ghost:                                                    *)
(*   nops, nruns, ncrash, ntamper  operations, sync runs, crashes and      *)
(*                       removals so far                                   *)
(*   op, disk0           the running operation and the disk it started on  *)
(*   saved               per kind, id -> the summary triple computed by    *)
(*                       the latest completed save that held the id        *)
(*   allok               no operation failed or was killed so far          *)
(*   ixold, ixnew        per kind, the index file before the latest        *)
(*                       write_index opened it, and the rows it set out    *)
(*                       to write                                          *)
(*   downloaded          attachment path -> the content of its latest GET  *)
(*   partial             the attachment paths whose download was killed    *)
(*                       between the opening of the file and the marker    *)
(*   file, marker, had, pre   of the latest download_candidate_attachment  *)
(*                       call: its two paths, whether each existed when    *)
(*                       it was called, and the disk then                  *)
(*   dlgets, rungets     the GETs of that call, and of the current run     *)
(*   prevok              the latest operation was a sync run that          *)
(*                       returned, and nothing happened since              *)
(*   afterok             the current run started in such a state           *)
(*   prevfetch           if the latest operation was a fetch that returned: *)
(*                       its kind, the records it got and the disk it left *)
(*   overlap             two writer processes have been in save_entities   *)
(*                       at the same time                                  *)
(***************************************************************************)

(***************************************************************************)
(* The paginator: get_paginated.                                           *)
(***************************************************************************)
\* mk_params on Commands' standard_params
MkParams(after_date, before_date) ==
    {<<"per_page", <<"100">>>>}
    \cup (IF IsNone(after_date) THEN {} ELSE {<<"created_after", Val(after_date)>>})
    \cup (IF IsNone(before_date) THEN {} ELSE {<<"created_before", Val(before_date)>>})

\* the date filters (after_date, before_date) a run may be started with
DateFilters == {<<None, None>>, <<Some(<<"2024-01-01">>), Some(<<"2024-12-31">>)>>}

\* sequences over S of length 0..n
RECURSIVE SeqsUpTo(_, _)
SeqsUpTo(S, n) ==
    IF n = 0 THEN {<<>>}
    ELSE LET shorter == SeqsUpTo(S, n - 1)
         IN  shorter \cup {Append(s, x) : s \in {t \in shorter : Len(t) = n - 1}, x \in S}

\* what the upstream may answer to the GET of page p of kind k
Responses(k, p) ==
    {[status |-> 200, body |-> b, link |-> l, retry_after |-> None] :
        b \in SeqsUpTo(Upstream(k), MaxPerPage),
        l \in IF p < MaxPages THEN {None} \cup {Some(h) : h \in LinkHeaders}
                              ELSE {None}}
    \cup {[status |-> 429, body |-> <<>>, link |-> None, retry_after |-> ra] :
            ra \in {None, Some(<<"1">>)}}
    \cup {[status |-> 500, body |-> <<>>, link |-> None, retry_after |-> None]}

\* the loop ends (break, or next_uri is None): return items
Return(f, items) ==
    [pc |-> "fetched", err |-> "",
     fetch |-> [f EXCEPT !.items = items, !.next_uri = None, !.result = Some(items)]]

\* Raise, were the error to end the loop as a break does
RaiseReturnsItems(f, e) == Return(f, f.items)

\* raise: the exception leaves get_paginated and its callers; nothing is returned
Raise(f, e) ==
    [pc |-> "failed", err |-> e, fetch |-> [NoFetch EXCEPT !.query = f.query]]

\* Iteration, without the break on an empty page
IterationNoBreak(f, r) ==
    IF r.status # 200
    THEN Raise(f, IF r.status = 429 /\ IsNone(r.retry_after)
                  THEN "KeyError" ELSE "ValueError")
    ELSE LET items == f.items \o r.body
             g == [f EXCEPT !.page = f.page + 1, !.params = None]
         IN  IF IsNone(r.link) THEN Return(g, items)
             ELSE LET parsed == ParseLink(Val(r.link)) IN
                  IF ~parsed.ok THEN Raise(f, "ValueError")
                  ELSE LET next_uri == SelectLink(parsed.contents, NextRel) IN
                       IF IsNone(next_uri) THEN Return(g, items)
                       ELSE [pc |-> "get_paginated", err |-> "",
                             fetch |-> [g EXCEPT !.items = items,
                                                 !.next_uri = next_uri]]

\* Iteration, without the reset of params after the first request
IterationKeepsParams(f, r) ==
    IF r.status # 200
    THEN Raise(f, IF r.status = 429 /\ IsNone(r.retry_after)
                  THEN "KeyError" ELSE "ValueError")
    ELSE IF r.body = <<>> THEN Return(f, f.items)
    ELSE LET items == f.items \o r.body
             g == [f EXCEPT !.page = f.page + 1]
         IN  IF IsNone(r.link) THEN Return(g, items)
             ELSE LET parsed == ParseLink(Val(r.link)) IN
                  IF ~parsed.ok THEN Raise(f, "ValueError")
                  ELSE LET next_uri == SelectLink(parsed.contents, NextRel) IN
                       IF IsNone(next_uri) THEN Return(g, items)
                       ELSE [pc |-> "get_paginated", err |-> "",
                             fetch |-> [g EXCEPT !.items = items,
                                                 !.next_uri = next_uri]]

\* one iteration of get_paginated's while loop, on the response r
Iteration(f, r) ==
    IF r.status # 200
    THEN Raise(f, IF r.status = 429 /\ IsNone(r.retry_after)
                  THEN "KeyError" ELSE "ValueError")
    ELSE IF r.body = <<>> THEN Return(f, f.items)
    ELSE LET items == f.items \o r.body
             g == [f EXCEPT !.page = f.page + 1, !.params = None]
         IN  IF IsNone(r.link) THEN Return(g, items)
             ELSE LET parsed == ParseLink(Val(r.link)) IN
                  IF ~parsed.ok THEN Raise(f, "ValueError")
                  ELSE LET next_uri == SelectLink(parsed.contents, NextRel) IN
                       IF IsNone(next_uri) THEN Return(g, items)
                       ELSE [pc |-> "get_paginated", err |-> "",
                             fetch |-> [g EXCEPT !.items = items,
                                                 !.next_uri = next_uri]]

\* Commands.<kind>(): the fetch of kind k starts
StartFetch(k) ==
    /\ pc = "idle"
    /\ ghost.nops < MaxOps
    /\ \E dates \in DateFilters :
         fetch' = [query |-> k, items |-> <<>>, page |-> 1,
                   next_uri |-> Some(BASE_URL \o RestName(k)),
                   params |-> Some(MkParams(dates[1], dates[2])),
                   result |-> None]
    /\ pc' = "get_paginated"
    /\ ghost' = [ghost EXCEPT !.nops = @ + 1, !.op = "fetch", !.disk0 = disk,
                               !.prevok = FALSE]
    /\ UNCHANGED <<disk, now, err, reqlog, resplog, save, sync, other, chk, stdout>>

\* requests.get(next_uri, params) and the rest of the loop body
GetPage ==
    /\ pc = "get_paginated"
    /\ \E r \in Responses(fetch.query, fetch.page) :
         LET out == Iteration(fetch, r) IN
         /\ reqlog' = Append(reqlog, [uri |-> Val(fetch.next_uri),
                                      params |-> fetch.params])
         /\ resplog' = Append(resplog, r)
         /\ fetch' = out.fetch
         /\ pc' = out.pc
         /\ err' = out.err
    /\ ghost' = [ghost EXCEPT !.allok = @ /\ pc' # "failed"]
    /\ UNCHANGED <<disk, now, save, sync, other, chk, stdout>>

\* get_entities_from_greenhouse takes the timestamp; the entities are built
\* and passed to process_retrieved_entities
Construct ==
    /\ pc = "fetched"
    /\ save' = [NoSave EXCEPT
                  !.entities = MkEntities(fetch.query, Val(fetch.result), IsoTime(now))]
    /\ pc' = "save_entities"
    /\ UNCHANGED <<disk, now, err, fetch, reqlog, resplog, sync, ghost, other, chk, stdout>>

(***************************************************************************)
(* The entity store: save_entities and write_index.                        *)
(***************************************************************************)
\* the batches save_entities may be called with directly
Batches(t) ==
    SeqsUpTo({[rest_name |-> k, data |-> d, retrieval_timestamp |-> IsoTime(t)] :
                 k \in Kinds, d \in JobData \cup CandidateData}
             \ {e \in [rest_name : Kinds, data : JobData \cup CandidateData,
                       retrieval_timestamp : {IsoTime(t)}] :
                    e.data \notin Upstream(e.rest_name)},
             MaxPerPage) \ {<<>>}

\* process_retrieved_entities(entities), called on a batch
StartSave(entities) ==
    /\ pc = "idle"
    /\ ghost.nops < MaxOps
    /\ save' = [NoSave EXCEPT !.entities = entities]
    /\ pc' = "save_entities"
    /\ ghost' = [ghost EXCEPT !.nops = @ + 1, !.op = "save", !.disk0 = disk,
                               !.prevok = FALSE]
    /\ UNCHANGED <<disk, now, err, fetch, reqlog, resplog, sync, other, chk, stdout>>

\* save_entities up to its loop: the kind of the batch is that of its first
\* entity (IndexError on an empty batch), whose directory is made if absent
SaveBegin ==
    /\ pc = "save_entities"
    /\ IF save.entities = <<>>
       THEN /\ pc' = "failed"
            /\ err' = "IndexError"
            /\ UNCHANGED <<disk, save>>
       ELSE LET rest_name == save.entities[1].rest_name IN
            /\ disk' = [disk EXCEPT !.dirs = @ \cup {rest_name}]
            /\ save' = [save EXCEPT !.rest_name = rest_name, !.i = 1]
            /\ pc' = "save_loop"
            /\ err' = ""
    /\ ghost' = [ghost EXCEPT !.allok = @ /\ pc' # "failed"]
    /\ UNCHANGED <<now, fetch, reqlog, resplog, sync, other, chk, stdout>>

\* SaveLoop, without the check of the entity's kind
SaveLoopNoKindCheck ==
    /\ pc = "save_loop"
    /\ save.i <= Len(save.entities)
    /\ LET e == save.entities[save.i]
           entity_id == Str(e.data.id)
       IN  /\ disk' = [disk EXCEPT
                         !.efiles = Put(@, <<save.rest_name, entity_id>>, None)]
           /\ pc' = "dump"
           /\ err' = ""
    /\ ghost' = [ghost EXCEPT !.allok = @ /\ pc' # "failed"]
    /\ UNCHANGED <<now, fetch, reqlog, resplog, save, sync, other, chk, stdout>>

\* one iteration of save_entities' loop, up to file_name.open('w'), which
\* creates the entity's file or truncates it; RuntimeError on an entity of
\* another kind
SaveLoop ==
    /\ pc = "save_loop"
    /\ save.i <= Len(save.entities)
    /\ LET e == save.entities[save.i]
           entity_id == Str(e.data.id)
       IN  IF e.rest_name # save.rest_name
           THEN /\ pc' = "failed"
                /\ err' = "RuntimeError"
                /\ UNCHANGED disk
           ELSE /\ disk' = [disk EXCEPT
                              !.efiles = Put(@, <<save.rest_name, entity_id>>, None)]
                /\ pc' = "dump"
                /\ err' = ""
    /\ ghost' = [ghost EXCEPT !.allok = @ /\ pc' # "failed"]
    /\ UNCHANGED <<now, fetch, reqlog, resplog, save, sync, other, chk, stdout>>

\* json.dump(e.data, ef) and the close of the file: the payload is in the
\* file; the entity's summary is recorded
SaveDump ==
    /\ pc = "dump"
    /\ LET e == save.entities[save.i]
           entity_id == Str(e.data.id)
       IN  /\ disk' = [disk EXCEPT
                         !.efiles = Put(@, <<save.rest_name, entity_id>>, Some(e.data))]
           /\ save' = [save EXCEPT
                         !.i = @ + 1,
                         !.new_entity_summary =
                             Put(@, entity_id,
                                 <<entity_id, Moniker(e), e.retrieval_timestamp>>)]
           /\ pc' = IF save.i = Len(save.entities) THEN "read_index"
                                                   ELSE "save_loop"
    /\ UNCHANGED <<now, err, fetch, reqlog, resplog, sync, ghost, other, chk, stdout>>

\* SaveMerge, without reading the index on disk
SaveMergeNoRead ==
    /\ pc = "read_index"
    /\ save' = [save EXCEPT !.entity_summary = save.new_entity_summary]
    /\ pc' = "write_index"
    /\ UNCHANGED <<disk, now, err, fetch, reqlog, resplog, sync, ghost, other, chk, stdout>>

\* entity_summary = read_index(...); entity_summary.update(new_entity_summary)
SaveMerge ==
    /\ pc = "read_index"
    /\ save' = [save EXCEPT
                  !.entity_summary =
                      Update(ReadIndex(disk, save.rest_name), save.new_entity_summary)]
    /\ pc' = "write_index"
    /\ UNCHANGED <<disk, now, err, fetch, reqlog, resplog, sync, ghost, other, chk, stdout>>

\* write_index up to open(): the directory is checked, the items are sorted
\* and the file is opened for writing, which truncates it
WriteIndexOpen ==
    /\ pc = "write_index"
    /\ IF save.rest_name \notin disk.dirs
       THEN /\ pc' = "failed"
            /\ err' = "ValueError"
            /\ UNCHANGED <<disk, save>>
       ELSE /\ save' = [save EXCEPT !.rows = IndexRows(IndexItems(save.entity_summary))]
            /\ disk' = [disk EXCEPT !.index[save.rest_name] = Some(<<>>)]
            /\ pc' = "writerow"
            /\ err' = ""
    /\ ghost' = [ghost EXCEPT
                   !.allok = @ /\ pc' # "failed",
                   !.ixold[save.rest_name] =
                       IF pc' = "failed" THEN @ ELSE disk.index[save.rest_name],
                   !.ixnew[save.rest_name] =
                       IF pc' = "failed" THEN @ ELSE Some(save'.rows)]
    /\ UNCHANGED <<now, fetch, reqlog, resplog, sync, other, chk, stdout>>

\* one writer.writerow (the header first); after the last row the file is
\* closed and save_entities returns
WriteRow ==
    /\ pc = "writerow"
    /\ LET file == Val(disk.index[save.rest_name])
           n == Len(file) + 1
       IN  /\ disk' = [disk EXCEPT
                         !.index[save.rest_name] = Some(Append(file, save.rows[n]))]
           /\ pc' = IF n = Len(save.rows) THEN "done" ELSE "writerow"
    /\ ghost' = [ghost EXCEPT
                   !.saved[save.rest_name] =
                       IF pc' = "done" THEN Update(@, save.new_entity_summary) ELSE @]
    /\ UNCHANGED <<now, err, fetch, reqlog, resplog, save, sync, other, chk, stdout>>

(***************************************************************************)
(* The process ends, the clock advances, the process is killed.            *)
(***************************************************************************)
\* the operation returned or raised: the process exits
Finish ==
    /\ pc \in {"done", "failed"}
    /\ pc' = "idle"
    /\ err' = ""
    /\ fetch' = NoFetch
    /\ reqlog' = <<>>
    /\ resplog' = <<>>
    /\ save' = NoSave
    /\ sync' = NoSync
    /\ ghost' = [ghost EXCEPT
                   !.op = "", !.disk0 = EmptyDisk,
                   !.file = <<>>, !.marker = <<>>,
                   !.had = <<FALSE, FALSE>>, !.pre = EmptyDisk,
                   !.dlgets = 0, !.rungets = 0, !.afterok = FALSE,
                   !.prevok = (pc = "done" /\ ghost.op = "sync"),
                   !.prevfetch =
                       IF pc = "done" /\ ghost.op = "fetch"
                       THEN Some([query |-> fetch.query,
                                  records |-> Range(Val(fetch.result)),
                                  disk |-> disk])
                       ELSE None]
    /\ chk' = NoCheck
    /\ stdout' = <<>>
    /\ UNCHANGED <<disk, now, other>>

\* a second passes between two runs
Tick ==
    /\ pc = "idle"
    /\ now < MaxTime
    /\ now' = now + 1
    /\ UNCHANGED <<disk, pc, err, fetch, reqlog, resplog, save, sync, ghost, other, chk, stdout>>

\* the process is killed: its memory is lost, the files stay as they are
Crash ==
    /\ pc \notin {"idle", "done", "failed"}
    /\ ghost.ncrash < MaxCrashes
    /\ pc' = "idle"
    /\ err' = ""
    /\ fetch' = NoFetch
    /\ reqlog' = <<>>
    /\ resplog' = <<>>
    /\ save' = NoSave
    /\ sync' = NoSync
    /\ ghost' = [ghost EXCEPT
                   !.ncrash = @ + 1, !.allok = FALSE,
                   !.partial = IF pc \in {"write", "complete"}
                               THEN @ \cup {ghost.file} ELSE @,
                   !.op = "", !.disk0 = EmptyDisk,
                   !.file = <<>>, !.marker = <<>>,
                   !.had = <<FALSE, FALSE>>, !.pre = EmptyDisk,
                   !.dlgets = 0, !.rungets = 0, !.afterok = FALSE,
                   !.prevok = FALSE, !.prevfetch = None]
    /\ chk' = NoCheck
    /\ stdout' = <<>>
    /\ UNCHANGED <<disk, now, other>>

\* the scheduler takes the CPU from the running writer process and gives it
\* to the other one; the rows of an index reach the file in one write when
\* it is closed, so a writer is not preempted between open and close
Switch ==
    /\ pc # "writerow"
    /\ other' = [pc |-> pc, err |-> err, save |-> save]
    /\ pc' = other.pc
    /\ err' = other.err
    /\ save' = other.save
    /\ ghost' = [ghost EXCEPT
                   !.overlap = @ \/ pc \notin {"idle", "done", "failed"}]
    /\ UNCHANGED <<disk, now, fetch, reqlog, resplog, sync, chk, stdout>>

(***************************************************************************)
(* The attachment downloader: get_candidate_attachments and                *)
(* download_candidate_attachment.                                          *)
(***************************************************************************)
\* what a GET on an attachment's url may answer
AttachmentResponses ==
    { [status_code |-> 200, content |-> <<"%PDF", "body">>],
      [status_code |-> 404, content |-> <<"Not", "Found">>] }

EntityDir == << <<"candidates">> >>
CompleteName == <<"complete">>

\* mk_attachment_path(prefix_dir, attachment), as path components
MkAttachmentPath(prefix_dir, attachment) ==
    <<prefix_dir,
      attachment.type \o <<"-">> \o Replace(attachment.created_at, ":", "c")>>

\* attachment_dir of download_candidate_attachment
AttachmentDir(candidate_id, attachment) ==
    EntityDir \o MkAttachmentPath(candidate_id \o <<"-attachments">>, attachment)
AttachmentFilename(candidate_id, attachment) ==
    AttachmentDir(candidate_id, attachment) \o <<attachment.filename>>
CompleteFilename(candidate_id, attachment) ==
    AttachmentDir(candidate_id, attachment) \o <<CompleteName>>

\* path.exists()
Exists(files, path) == path \in DOMAIN files
\* path.unlink(missing_ok=True)
Unlink(files, path) == [p \in DOMAIN files \ {path} |-> files[p]]

\* candidate_attachment_exists
CandidateAttachmentExists(d, candidate_id, attachment) ==
    /\ Exists(d.afiles, AttachmentFilename(candidate_id, attachment))
    /\ Exists(d.afiles, CompleteFilename(candidate_id, attachment))

\* Skip, collapsed to the existence of the content file alone
SkipContentOnly(d, candidate_id, attachment) ==
    Exists(d.afiles, AttachmentFilename(candidate_id, attachment))

\* skip, as download_candidate_attachment computes it
Skip(d, candidate_id, attachment) ==
    /\ Exists(d.afiles, AttachmentFilename(candidate_id, attachment))
    /\ Exists(d.afiles, CompleteFilename(candidate_id, attachment))

\* the ids of the index in the order of entity_summary.values()
RECURSIVE Dedup(_)
Dedup(s) ==
    IF Len(s) = 0 THEN <<>>
    ELSE LET r == Dedup(SubSeq(s, 1, Len(s) - 1))
             x == s[Len(s)]
         IN  IF \E i \in 1..Len(r) : r[i] = x THEN r ELSE Append(r, x)
IndexOrder(d, k) ==
    LET index == ReadIndex(d, k)
        rows == IF IsNone(d.index[k]) THEN <<>> ELSE Val(d.index[k])
        ids == [i \in 1..(Len(rows) - 1) |->
                   CsvValue(rows[i + 1][Column(rows[1], <<"id">>)])]
    IN  [i \in 1..Len(Dedup(ids)) |-> index[Dedup(ids)[i]][1]]

\* the attachment being downloaded
CurAtt == Head(sync.atts)
CurFile == AttachmentFilename(sync.candidate_id, CurAtt)
CurComplete == CompleteFilename(sync.candidate_id, CurAtt)

\* Commands.attachments(): get_candidate_attachments reads the candidate index
StartSync ==
    /\ pc = "idle"
    /\ ghost.nruns < MaxRuns
    /\ sync' = [NoSync EXCEPT !.todo = IndexOrder(disk, Candidates)]
    /\ pc' = "sync_next"
    /\ ghost' = [ghost EXCEPT !.nruns = @ + 1, !.op = "sync", !.disk0 = disk,
                               !.rungets = 0, !.afterok = ghost.prevok,
                               !.prevok = FALSE]
    /\ UNCHANGED <<disk, now, err, fetch, reqlog, resplog, save, other, chk, stdout>>

\* the outer loop: the next candidate's record is loaded from its file
SyncNext ==
    /\ pc = "sync_next"
    /\ IF sync.todo = <<>>
       THEN /\ pc' = "done"
            /\ err' = ""
            /\ sync' = sync
       ELSE LET id == Head(sync.todo) IN
            IF ~Exists(disk.efiles, <<Candidates, id>>)
            THEN /\ pc' = "failed"
                 /\ err' = "FileNotFoundError"
                 /\ sync' = sync
            ELSE IF IsNone(disk.efiles[<<Candidates, id>>])
            THEN /\ pc' = "failed"
                 /\ err' = "JSONDecodeError"
                 /\ sync' = sync
            ELSE /\ sync' = [sync EXCEPT
                               !.todo = Tail(@), !.candidate_id = id,
                               !.atts = Val(disk.efiles[<<Candidates, id>>]).attachments]
                 /\ pc' = "sync_atts"
                 /\ err' = ""
    /\ UNCHANGED <<disk, now, fetch, reqlog, resplog, save, ghost, other, chk, stdout>>

\* the inner loop: download_candidate_attachment is called on the next
\* descriptor and makes the attachment's directory
SyncAtt ==
    /\ pc = "sync_atts"
    /\ IF sync.atts = <<>>
       THEN /\ pc' = "sync_next"
            /\ UNCHANGED <<disk, ghost>>
       ELSE LET dir == AttachmentDir(sync.candidate_id, CurAtt) IN
            /\ disk' = [disk EXCEPT !.adirs = @ \cup {SubSeq(dir, 1, 2), dir}]
            /\ pc' = "skip"
            /\ ghost' = [ghost EXCEPT
                           !.file = CurFile, !.marker = CurComplete,
                           !.had = <<Exists(disk.afiles, CurFile),
                                     Exists(disk.afiles, CurComplete)>>,
                           !.pre = disk, !.dlgets = 0]
    /\ UNCHANGED <<now, err, fetch, reqlog, resplog, save, sync, other, chk, stdout>>

\* skip = attachment_filename.exists() and complete_filename.exists()
DlCheck ==
    /\ pc = "skip"
    /\ LET skip == Skip(disk, sync.candidate_id, CurAtt) IN
       /\ sync' = [sync EXCEPT !.skip = skip,
                               !.atts = IF skip THEN Tail(@) ELSE @]
       /\ pc' = IF skip THEN "sync_atts" ELSE "unlink_complete"
    /\ UNCHANGED <<disk, now, err, fetch, reqlog, resplog, save, ghost, other, chk, stdout>>

\* DlUnlinkComplete, the marker left in place
DlUnlinkCompleteSkipped ==
    /\ pc = "unlink_complete"
    /\ pc' = "unlink_attachment"
    /\ UNCHANGED <<disk, now, err, fetch, reqlog, resplog, save, sync, ghost, other, chk, stdout>>

\* complete_filename.unlink(True)
DlUnlinkComplete ==
    /\ pc = "unlink_complete"
    /\ disk' = [disk EXCEPT !.afiles = Unlink(@, CurComplete)]
    /\ pc' = "unlink_attachment"
    /\ UNCHANGED <<now, err, fetch, reqlog, resplog, save, sync, ghost, other, chk, stdout>>

\* attachment_filename.unlink(True)
DlUnlinkAttachment ==
    /\ pc = "unlink_attachment"
    /\ disk' = [disk EXCEPT !.afiles = Unlink(@, CurFile)]
    /\ pc' = "get"
    /\ UNCHANGED <<now, err, fetch, reqlog, resplog, save, sync, ghost, other, chk, stdout>>

\* response = requests.get(attachment['url']): a response of any status
DlGet ==
    /\ pc = "get"
    /\ \E response \in AttachmentResponses :
         /\ sync' = [sync EXCEPT !.response = Some(response)]
         /\ ghost' = [ghost EXCEPT
                        !.dlgets = @ + 1, !.rungets = @ + 1,
                        !.downloaded = Put(@, CurFile, response.content)]
    /\ pc' = "open"
    /\ UNCHANGED <<disk, now, err, fetch, reqlog, resplog, save, other, chk, stdout>>

\* requests.get raises (no connection): the run ends with the exception
DlGetRaises ==
    /\ pc = "get"
    /\ pc' = "failed"
    /\ err' = "ConnectionError"
    /\ ghost' = [ghost EXCEPT !.dlgets = @ + 1, !.rungets = @ + 1]
    /\ UNCHANGED <<disk, now, fetch, reqlog, resplog, save, sync, other, chk, stdout>>

\* attachment_filename.open(mode='wb'): the file is created empty
DlOpen ==
    /\ pc = "open"
    /\ disk' = [disk EXCEPT !.afiles = Put(@, CurFile, <<>>)]
    /\ pc' = IF Val(sync.response).content = <<>> THEN "complete" ELSE "write"
    /\ UNCHANGED <<now, err, fetch, reqlog, resplog, save, sync, ghost, other, chk, stdout>>

\* af.write(response.content), one block reaching the file at a time; after
\* the last one the file is closed
DlWrite ==
    /\ pc = "write"
    /\ LET content == Val(sync.response).content
           written == disk.afiles[CurFile]
           n == Len(written) + 1
       IN  /\ disk' = [disk EXCEPT !.afiles = Put(@, CurFile, Append(written, content[n]))]
           /\ pc' = IF n = Len(content) THEN "complete" ELSE "write"
    /\ UNCHANGED <<now, err, fetch, reqlog, resplog, save, sync, ghost, other, chk, stdout>>

\* DlComplete, the marker written before the content file is opened
DlCompleteBeforeContent ==
    /\ pc = "open"
    /\ disk' = [disk EXCEPT !.afiles = Put(@, CurComplete, <<>>)]
    /\ UNCHANGED <<now, pc, err, fetch, reqlog, resplog, save, sync, ghost, other, chk, stdout>>

\* DlComplete, without the marker
DlCompleteNoMarker ==
    /\ pc = "complete"
    /\ sync' = [sync EXCEPT !.atts = Tail(@), !.response = None]
    /\ pc' = "sync_atts"
    /\ UNCHANGED <<disk, now, err, fetch, reqlog, resplog, save, ghost, other, chk, stdout>>

\* the empty marker file is written; download_candidate_attachment returns
DlComplete ==
    /\ pc = "complete"
    /\ disk' = [disk EXCEPT !.afiles = Put(@, CurComplete, <<>>)]
    /\ sync' = [sync EXCEPT !.atts = Tail(@), !.response = None]
    /\ pc' = "sync_atts"
    /\ UNCHANGED <<now, err, fetch, reqlog, resplog, save, ghost, other, chk, stdout>>

\* someone removes a file of the attachment subtree between two runs
TamperDelete ==
    /\ pc = "idle"
    /\ ghost.ntamper < MaxTamper
    /\ \E path \in DOMAIN disk.afiles :
         disk' = [disk EXCEPT !.afiles = Unlink(@, path)]
    /\ ghost' = [ghost EXCEPT !.ntamper = @ + 1, !.prevok = FALSE]
    /\ UNCHANGED <<now, pc, err, fetch, reqlog, resplog, save, sync, other, chk, stdout>>

(***************************************************************************)
(* The referential checker: get_indices, check_references, print_category. *)
(***************************************************************************)
member_limit == 25

\* PrintCategory, without the limit on the number of members
PrintCategoryNoLimit(category_title, members) ==
    << <<category_title, ":", " ">> \o Str(Len(members)) >>
    \o [i \in 1..Len(members) |-> <<" ", " ", " ", " ">> \o members[i]]

\* the lines print_category prints: the title with the size, then the
\* members if there are between 1 and member_limit of them
PrintCategory(category_title, members) ==
    << <<category_title, ":", " ">> \o Str(Len(members)) >>
    \o (IF 0 < Len(members) /\ Len(members) <= member_limit
        THEN [i \in 1..Len(members) |-> <<" ", " ", " ", " ">> \o members[i]]
        ELSE <<>>)

\* get_indices: the seven indices as read_index returns them (the attachment
\* index, which check_references does not use, is left out)
GetIndices(d) == [k \in AllKinds |-> ReadIndex(d, k)]

Slash == <<"/">>

\* the monikers of an index that do not split into two parts at '/'
BadPortmanteaus(index) ==
    {id \in DOMAIN index : Len(Split(index[id][2], Slash)) # 2}

\* candidate_id, x = summary[1].split('/'), for every entry of the index
Pairs(index) ==
    [id \in DOMAIN index |->
        <<Split(index[id][2], Slash)[1], Split(index[id][2], Slash)[2]>>]

\* the non-empty values of position n of the pairs
Mentioned(pairs, n) ==
    {pairs[id][n] : id \in DOMAIN pairs} \ {<<>>}

\* the eight categories check_references prints, in its order
Report(c) ==
    LET all_applications == DOMAIN c.idx[Applications]
        all_candidates == DOMAIN c.idx[Candidates]
        all_jobs == DOMAIN c.idx[Jobs]
    IN  << <<"Candidates without applications",
             Sorted(all_candidates \ c.application_candidates)>>,
           <<"Missing candidates mentioned in applications",
             Sorted(c.application_candidates \ all_candidates)>>,
           <<"Jobs without applications",
             Sorted(all_jobs \ c.application_jobs)>>,
           <<"Missing jobs mentioned in applications",
             Sorted(c.application_jobs \ all_jobs)>>,
           <<"Candidates without scorecards",
             Sorted(all_candidates \ c.scorecard_candidates)>>,
           <<"Missing candidates mentioned in scorecards",
             Sorted(c.scorecard_candidates \ all_candidates)>>,
           <<"Missing candidates mentioned in offers",
             Sorted(c.offer_candidates \ all_candidates)>>,
           <<"Missing applications mentioned in offers",
             Sorted(c.offer_applications \ all_applications)>> >>

\* Commands.check(): check_references reads the indices
StartCheck ==
    /\ pc = "idle"
    /\ chk' = [NoCheck EXCEPT !.idx = GetIndices(disk)]
    /\ pc' = "check_applications"
    /\ ghost' = [ghost EXCEPT !.op = "check", !.disk0 = disk, !.prevok = FALSE]
    /\ UNCHANGED <<disk, now, err, fetch, reqlog, resplog, save, sync, other, stdout>>

\* the loop over the application index and the assert after it
CheckApplications ==
    /\ pc = "check_applications"
    /\ LET index == chk.idx[Applications] IN
       IF BadPortmanteaus(index) # {}
       THEN /\ pc' = "failed"
            /\ err' = "ValueError"
            /\ chk' = chk
       ELSE LET pairs == Pairs(index) IN
            /\ chk' = [chk EXCEPT !.application_pairs = pairs,
                                  !.application_candidates = Mentioned(pairs, 1),
                                  !.application_jobs = Mentioned(pairs, 2)]
            /\ IF Mentioned(pairs, 1) = {}
               THEN pc' = "failed" /\ err' = "AssertionError"
               ELSE pc' = "check_scorecards" /\ err' = ""
    /\ UNCHANGED <<disk, now, fetch, reqlog, resplog, save, sync, ghost, other, stdout>>

\* the loop over the scorecard index and the assert after it
CheckScorecards ==
    /\ pc = "check_scorecards"
    /\ LET index == chk.idx[Scorecards]
           scorecard_candidates == {index[id][2] : id \in DOMAIN index} \ {<<>>}
       IN  /\ chk' = [chk EXCEPT !.scorecard_candidates = scorecard_candidates]
           /\ IF scorecard_candidates = {}
              THEN pc' = "failed" /\ err' = "AssertionError"
              ELSE pc' = "check_offers" /\ err' = ""
    /\ UNCHANGED <<disk, now, fetch, reqlog, resplog, save, sync, ghost, other, stdout>>

\* the loop over the offer index and the assert after it
CheckOffers ==
    /\ pc = "check_offers"
    /\ LET index == chk.idx[Offers] IN
       IF BadPortmanteaus(index) # {}
       THEN /\ pc' = "failed"
            /\ err' = "ValueError"
            /\ chk' = chk
       ELSE LET pairs == Pairs(index) IN
            /\ chk' = [chk EXCEPT !.offer_pairs = pairs,
                                  !.offer_candidates = Mentioned(pairs, 1),
                                  !.offer_applications = Mentioned(pairs, 2)]
            /\ IF Mentioned(pairs, 1) = {}
               THEN pc' = "failed" /\ err' = "AssertionError"
               ELSE pc' = "check_print" /\ err' = ""
    /\ UNCHANGED <<disk, now, fetch, reqlog, resplog, save, sync, ghost, other, stdout>>

\* the eight print_category calls; check_references returns
CheckPrint ==
    /\ pc = "check_print"
    /\ stdout' = Concat([i \in 1..Len(Report(chk)) |->
                            PrintCategory(Report(chk)[i][1], Report(chk)[i][2])])
    /\ pc' = "done"
    /\ UNCHANGED <<disk, now, err, fetch, reqlog, resplog, save, sync, ghost, other, chk>>

\* the titles check_references passes to print_category
Titles == {Report(NoCheck)[i][1] : i \in 1..Len(Report(NoCheck))}

\* check_references is about to call print_category on a title and the
\* sorted list of a gap set: the ids lo..hi
StartPrint ==
    /\ pc = "idle"
    /\ \E title \in Titles, lo \in 1..MaxMembers, hi \in 0..MaxMembers :
         chk' = [NoCheck EXCEPT !.category_title = title,
                                !.members = Sorted({Str(i) : i \in lo..hi})]
    /\ pc' = "print_category"
    /\ ghost' = [ghost EXCEPT !.op = "print", !.disk0 = disk, !.prevok = FALSE]
    /\ UNCHANGED <<disk, now, err, fetch, reqlog, resplog, save, sync, other, stdout>>

\* print_category(category_title, members)
PrintCategoryCall ==
    /\ pc = "print_category"
    /\ stdout' = stdout \o PrintCategory(chk.category_title, chk.members)
    /\ pc' = "done"
    /\ UNCHANGED <<disk, now, err, fetch, reqlog, resplog, save, sync, ghost, other, chk>>

\* the payloads the upstream serves for the kinds check_references relates
RefCandidateData ==
    CandidateData
    \cup {[id |-> 3, first_name |-> None, last_name |-> None, attachments |-> <<>>]}
ApplicationData ==
    { [id |-> 11, candidate_id |-> 2, jobs |-> << [id |-> 2] >>],
      [id |-> 12, candidate_id |-> 3, jobs |-> << [id |-> 10], [id |-> 2] >>],
      [id |-> 13, candidate_id |-> 4, jobs |-> <<>>] }
ScorecardData ==
    { [id |-> 21, candidate_id |-> 1], [id |-> 22, candidate_id |-> 5] }
OfferData ==
    { [id |-> 31, candidate_id |-> 2, application_id |-> 11],
      [id |-> 32, candidate_id |-> 4, application_id |-> 14] }
RefKinds == {Applications, Candidates, Jobs, Offers, Scorecards}
RefData(k) ==
    CASE k = Applications -> ApplicationData
      [] k = Candidates -> RefCandidateData
      [] k = Jobs -> JobData
      [] k = Offers -> OfferData
      [] k = Scorecards -> ScorecardData

\* the records of S as a list, by ascending id
RECURSIVE ById(_)
ById(S) ==
    IF S = {} THEN <<>>
    ELSE LET m == CHOOSE x \in S : \A y \in S : x.id <= y.id
         IN  <<m>> \o ById(S \ {m})

\* what a kind-level fetch of kind k may hand to process_retrieved_entities
RefBatches(k, t) ==
    {MkEntities(k, ById(S), IsoTime(t)) : S \in (SUBSET RefData(k)) \ {{}}}

\* Commands.<kind>() on a cache that has no index of the kind yet
StartExtract(entities) ==
    /\ pc = "idle"
    /\ IsNone(disk.index[entities[1].rest_name])
    /\ save' = [NoSave EXCEPT !.entities = entities]
    /\ pc' = "save_entities"
    /\ ghost' = [ghost EXCEPT !.nops = @ + 1, !.op = "save", !.disk0 = disk,
                               !.prevok = FALSE]
    /\ UNCHANGED <<disk, now, err, fetch, reqlog, resplog, sync, other, chk, stdout>>

(***************************************************************************)
(* The specifications.                                                     *)
(***************************************************************************)
\* batches of candidates only
CandidateBatches(t) ==
    {b \in Batches(t) : \A i \in 1..Len(b) : b[i].rest_name = Candidates}

\* kind-level fetch operations, one after the other
NextFetch ==
    \/ \E k \in Kinds : StartFetch(k)
    \/ GetPage
    \/ Construct
    \/ SaveBegin \/ SaveLoop \/ SaveDump \/ SaveMerge \/ WriteIndexOpen \/ WriteRow
    \/ Finish
    \/ Tick
SpecFetch == Init /\ [][NextFetch]_vars

\* saves of batches, with crashes
NextStore ==
    \/ \E entities \in Batches(now) : StartSave(entities)
    \/ SaveBegin \/ SaveLoop \/ SaveDump \/ SaveMerge \/ WriteIndexOpen \/ WriteRow
    \/ Finish
    \/ Tick
    \/ Crash
SpecStore == Init /\ [][NextStore]_vars

\* candidates are saved and their attachments synced, with crashes
NextAttach ==
    \/ \E entities \in CandidateBatches(now) : StartSave(entities)
    \/ SaveBegin \/ SaveLoop \/ SaveDump \/ SaveMerge \/ WriteIndexOpen \/ WriteRow
    \/ StartSync \/ SyncNext \/ SyncAtt \/ DlCheck
    \/ DlUnlinkComplete \/ DlUnlinkAttachment
    \/ DlGet \/ DlGetRaises \/ DlOpen \/ DlWrite \/ DlComplete
    \/ Finish
    \/ Crash
SpecAttach == Init /\ [][NextAttach]_vars

\* the same, in a cache directory from which files may be removed
NextAttachEnv == NextAttach \/ TamperDelete
SpecAttachEnv == Init /\ [][NextAttachEnv]_vars

\* batches of jobs only
JobBatches(t) ==
    {b \in Batches(t) : \A i \in 1..Len(b) : b[i].rest_name = Jobs}

\* candidates with every combination of present and missing names
NamedCandidateData ==
    [id : {1, 2},
     first_name : {None, Some(<<"Jane">>), Some(<<"Ann">>)},
     last_name : {None, Some(<<"Doe">>), Some(<<"Lee">>)},
     attachments : {<<>>}]
\* batches of one such candidate
NamedBatches(t) ==
    {MkEntities(Candidates, <<d>>, IsoTime(t)) : d \in NamedCandidateData}

\* saves of candidates whose names may be missing
NextMoniker ==
    \/ \E entities \in NamedBatches(now) : StartSave(entities)
    \/ SaveBegin \/ SaveLoop \/ SaveDump \/ SaveMerge \/ WriteIndexOpen \/ WriteRow
    \/ Finish
SpecMoniker == Init /\ [][NextMoniker]_vars

\* two writer processes save jobs into the same cache directory
NextWriters ==
    \/ \E entities \in JobBatches(now) : StartSave(entities)
    \/ SaveBegin \/ SaveLoop \/ SaveDump \/ SaveMerge \/ WriteIndexOpen \/ WriteRow
    \/ Finish
    \/ Switch
SpecWriters == Init /\ [][NextWriters]_vars

\* the kinds are extracted, each once, and the references checked
NextRefs ==
    \/ \E k \in RefKinds : \E entities \in RefBatches(k, now) : StartExtract(entities)
    \/ SaveBegin \/ SaveLoop \/ SaveDump \/ SaveMerge \/ WriteIndexOpen \/ WriteRow
    \/ StartCheck \/ CheckApplications \/ CheckScorecards \/ CheckOffers
    \/ CheckPrint
    \/ Finish
SpecRefs == Init /\ [][NextRefs]_vars

\* print_category on gap sets of every size up to MaxMembers
NextPrint ==
    \/ StartPrint
    \/ PrintCategoryCall
    \/ Finish
SpecPrint == Init /\ [][NextPrint]_vars

\* every operation
Next ==
    \/ \E k \in Kinds : StartFetch(k)
    \/ GetPage
    \/ Construct
    \/ NextStore
    \/ NextAttachEnv
Spec == Init /\ [][Next]_vars

(***************************************************************************)
(* Properties.                                                             *)
(***************************************************************************)
Last(s) == s[Len(s)]

\* every attachment of the upstream candidates, with its candidate's id
AllAttachments ==
    UNION {{<<Str(c.id), c.attachments[i]>> : i \in 1..Len(c.attachments)} :
              c \in CandidateData}

\* s is a prefix of t
IsPrefix(s, t) == Len(s) <= Len(t) /\ SubSeq(t, 1, Len(s)) = s

\* C1: in every reachable state, whatever the crashes and re-runs since the
\* empty attachment subtree, an attachment whose `complete` marker exists has
\* its content file, holding all the bytes of its latest download.
C1_MarkerProvesContent ==
    \A a \in AllAttachments :
        Exists(disk.afiles, CompleteFilename(a[1], a[2])) =>
            LET f == AttachmentFilename(a[1], a[2]) IN
            /\ Exists(disk.afiles, f)
            /\ Exists(ghost.downloaded, f)
            /\ disk.afiles[f] = ghost.downloaded[f]

\* a download was killed while its content file was being written, and a
\* later run completed the attachment
C1_Witness ==
    \E a \in AllAttachments :
        /\ AttachmentFilename(a[1], a[2]) \in ghost.partial
        /\ Exists(disk.afiles, CompleteFilename(a[1], a[2]))
        /\ ghost.nruns >= 2

\* C2: after successful saves only, the index of every kind, as read_index
\* returns it, maps each id ever saved to the triple computed by the latest
\* save that held the id.
C2_IndexIsUnionLatestWins ==
    (ghost.allok /\ pc \in {"idle", "done"}) =>
        \A k \in Kinds : ReadIndex(disk, k) = ghost.saved[k]

\* the same for the entries whose moniker holds no ','
IndexIsUnionLatestWinsCommaFree ==
    (ghost.allok /\ pc \in {"idle", "done"}) =>
        \A k \in Kinds :
            /\ DOMAIN ReadIndex(disk, k) = DOMAIN ghost.saved[k]
            /\ \A id \in DOMAIN ghost.saved[k] :
                   ~Contains(ghost.saved[k][id][2], ",") =>
                       ReadIndex(disk, k)[id] = ghost.saved[k][id]

\* C3: a 429 response does not end the fetch: get_paginated stays in its loop
\* and the next request goes to the same URI.
C3_RateLimitRetried ==
    (ghost.op = "fetch" /\ resplog # <<>> /\ Last(resplog).status = 429) =>
        /\ pc = "get_paginated"
        /\ fetch.next_uri = Some(Last(reqlog).uri)

\* C4: whenever no process runs (one ended, or was killed at any point), the
\* index file of every kind is the complete file from before the latest
\* write_index or the complete file that write_index set out to write.
C4_IndexNeverPartial ==
    pc = "idle" =>
        \A k \in Kinds :
            disk.index[k] = ghost.ixold[k] \/ disk.index[k] = ghost.ixnew[k]

\* C5: download_candidate_attachment skips exactly when the content file and
\* the marker both existed at the call; such a call changes nothing on disk
\* and issues no GET; and a run started right after a run that returned
\* issues no GET at all.
C5_CompleteIsSkipped ==
    /\ pc # "skip" => (sync.skip <=> (ghost.had[1] /\ ghost.had[2]))
    /\ (ghost.had[1] /\ ghost.had[2]) => (disk = ghost.pre /\ ghost.dlgets = 0)
    /\ ghost.afterok => ghost.rungets = 0

\* a second run, started right after a run that downloaded, returned after
\* skipping an attachment
C5_Witness ==
    /\ ghost.afterok
    /\ pc = "done"
    /\ ghost.had = <<TRUE, TRUE>>
    /\ ghost.downloaded # EmptyMap

\* C6: a download_candidate_attachment call that found exactly one of the
\* content file and the marker does not skip; both paths are gone before its
\* GET, its one GET precedes the opening of the content file, the marker is
\* absent while the content is written, and when it returns the content file
\* holds the downloaded bytes and the marker exists.
C6_LoneFileRedownloaded ==
    (ghost.op = "sync" /\ ghost.had[1] # ghost.had[2]) =>
        /\ pc # "skip" => ~sync.skip
        /\ pc = "unlink_attachment" => ~Exists(disk.afiles, ghost.marker)
        /\ pc \in {"get", "open"} =>
               /\ ~Exists(disk.afiles, ghost.file)
               /\ ~Exists(disk.afiles, ghost.marker)
        /\ pc = "get" => ghost.dlgets = 0
        /\ pc \in {"open", "write", "complete"} => ghost.dlgets = 1
        /\ pc \in {"write", "complete"} =>
               /\ Exists(disk.afiles, ghost.file)
               /\ ~Exists(disk.afiles, ghost.marker)
               /\ IsPrefix(disk.afiles[ghost.file], ghost.downloaded[ghost.file])
        /\ pc = "complete" => disk.afiles[ghost.file] = ghost.downloaded[ghost.file]
        /\ pc \in {"sync_atts", "sync_next", "done"} =>
               /\ ghost.dlgets = 1
               /\ Exists(disk.afiles, ghost.marker)
               /\ Exists(disk.afiles, ghost.file)
               /\ disk.afiles[ghost.file] = ghost.downloaded[ghost.file]

\* a call that found the marker without the content file returned
C6_Witness ==
    /\ ghost.op = "sync"
    /\ ghost.had = <<FALSE, TRUE>>
    /\ pc = "sync_atts"
    /\ Exists(disk.afiles, ghost.marker)
    /\ Exists(disk.afiles, ghost.file)

\* a call that found the content file without the marker returned
LoneContentWitness ==
    /\ ghost.op = "sync"
    /\ ghost.had = <<TRUE, FALSE>>
    /\ pc = "sync_atts"
    /\ Exists(disk.afiles, ghost.marker)

\* C7: a response with a status other than 200 and 429 ends the fetch with
\* ValueError: nothing is returned, not even the earlier pages, and the cache
\* directory is as it was when the operation started.
C7_FatalStatusAborts ==
    (ghost.op = "fetch" /\ resplog # <<>> /\ Last(resplog).status \notin {200, 429}) =>
        /\ pc = "failed"
        /\ err = "ValueError"
        /\ IsNone(fetch.result)
        /\ fetch.items = <<>>
        /\ disk = ghost.disk0

\* the second page failed, after a first page with records, on a cache that
\* earlier operations filled
C7_Witness ==
    /\ pc = "failed"
    /\ Len(resplog) = 2
    /\ Last(resplog).status = 500
    /\ resplog[1].body # <<>>
    /\ disk # EmptyDisk

\* the response carries a link header with a "next" relation
HasNext(r) ==
    /\ ~IsNone(r.link)
    /\ ParseLink(Val(r.link)).ok
    /\ ~IsNone(SelectLink(ParseLink(Val(r.link)).contents, NextRel))

\* C8: get_paginated goes on only after a non-empty page with a "next"
\* relation; it returns, without error, on an empty page (whatever its link
\* header), on a page without link header and on one without "next"; what it
\* returns is the bodies of its pages in request order, one GET per page.
C8_StopsAndConcatenates ==
    ghost.op = "fetch" =>
        /\ pc = "get_paginated" =>
               \A i \in 1..Len(resplog) :
                   resplog[i].status = 200 /\ resplog[i].body # <<>> /\ HasNext(resplog[i])
        /\ (resplog # <<>> /\ Last(resplog).status = 200
              /\ (Last(resplog).body = <<>> \/ IsNone(Last(resplog).link))) =>
               ~IsNone(fetch.result)
        /\ ~IsNone(fetch.result) =>
               /\ Len(reqlog) = Len(resplog)
               /\ \A i \in 1..(Len(resplog) - 1) :
                      resplog[i].body # <<>> /\ HasNext(resplog[i])
               /\ Last(resplog).body = <<>> \/ ~HasNext(Last(resplog))
               /\ Val(fetch.result) =
                      Concat([i \in 1..Len(resplog) |-> resplog[i].body])

\* a full page with a next link, then a shorter page without: all the
\* records, in exactly two requests
C8_Witness ==
    /\ pc = "fetched"
    /\ Len(reqlog) = 2
    /\ Len(resplog[1].body) = MaxPerPage
    /\ Len(resplog[2].body) = 1
    /\ IsNone(resplog[2].link)
    /\ Len(Val(fetch.result)) = MaxPerPage + 1

\* C9: the first request of a fetch goes to the resource's URL with the query
\* parameters; every later one goes to the URI of the "next" relation of the
\* response before it, with no parameters.
C9_ParamsOnFirstRequestOnly ==
    \A i \in 1..Len(reqlog) :
        IF i = 1
        THEN /\ reqlog[i].uri = BASE_URL \o RestName(fetch.query)
             /\ reqlog[i].params \in {Some(MkParams(d[1], d[2])) : d \in DateFilters}
        ELSE /\ IsNone(reqlog[i].params)
             /\ ~IsNone(resplog[i - 1].link)
             /\ Some(reqlog[i].uri) =
                    SelectLink(ParseLink(Val(resplog[i - 1].link)).contents, NextRel)

\* a second request was issued, in a fetch started with date filters
C9_Witness ==
    /\ Len(reqlog) = 2
    /\ <<"created_after", <<"2024-01-01">>>> \in Val(reqlog[1].params)
    /\ reqlog[2].uri = U2

\* an entry in the format <URI>; rel="TYPE"
WellFormedEntry(d) ==
    LET parts == Split(d, SemiSp) IN
    /\ Len(parts) = 2
    /\ StartsWith(parts[1], Lt) /\ EndsWith(parts[1], Gt)
    /\ StartsWith(parts[2], RelEq \o Quote)
    /\ EndsWith(parts[2], Quote)
    /\ Len(parts[2]) >= Len(RelEq) + 2

\* C10: a non-empty page whose link header holds an entry that is not in the
\* format ends the fetch with an error and nothing is returned.
C10_MalformedLinkAborts ==
    (/\ ghost.op = "fetch" /\ resplog # <<>>
     /\ Last(resplog).status = 200 /\ Last(resplog).body # <<>>
     /\ ~IsNone(Last(resplog).link)
     /\ \E d \in {Split(Val(Last(resplog).link), Comma)[i] :
                    i \in 1..Len(Split(Val(Last(resplog).link), Comma))} :
            ~WellFormedEntry(d)) =>
        /\ pc = "failed"
        /\ IsNone(fetch.result)

\* the payloads in the entity files of kind k
Persisted(k) ==
    {Val(disk.efiles[p]) :
        p \in {q \in DOMAIN disk.efiles : q[1] = k /\ ~IsNone(disk.efiles[q])}}

\* the lines of print_category(title, sorted(S)) are on stdout
Reported(title, S) ==
    LET block == PrintCategory(title, Sorted(S)) IN
    \E i \in 1..Len(stdout) :
        /\ i + Len(block) - 1 <= Len(stdout)
        /\ SubSeq(stdout, i, i + Len(block) - 1) = block

\* the ids the persisted records of the referencing kinds mention
CandidatesOfApplications == {Str(d.candidate_id) : d \in Persisted(Applications)}
JobsOfApplications ==
    {Str(d.jobs[1].id) : d \in {e \in Persisted(Applications) : e.jobs # <<>>}}
CandidatesOfScorecards == {Str(d.candidate_id) : d \in Persisted(Scorecards)}
CandidatesOfOffers == {Str(d.candidate_id) : d \in Persisted(Offers)}
ApplicationsOfOffers == {Str(d.application_id) : d \in Persisted(Offers)}
IdsOf(k) == DOMAIN ReadIndex(disk, k)

\* C11: whatever the indices hold, check_references does not raise and the
\* cache directory stays as it was when the check started.
C11_CheckNeverRaises ==
    ghost.op = "check" =>
        /\ pc # "failed"
        /\ disk = ghost.disk0

\* while check_references runs, the cache directory stays as it was
CheckLeavesCacheUnchanged ==
    ghost.op = "check" => disk = ghost.disk0

\* C12: when check_references returns, both gap sets of each of the five
\* relationships are on stdout, each the set difference of the ids of the
\* authoritative index and the ids the referencing kind mentions.
C12_BothGapSetsReported ==
    (ghost.op = "check" /\ pc = "done") =>
        /\ Reported("Candidates without applications",
                    IdsOf(Candidates) \ CandidatesOfApplications)
        /\ Reported("Missing candidates mentioned in applications",
                    CandidatesOfApplications \ IdsOf(Candidates))
        /\ Reported("Jobs without applications",
                    IdsOf(Jobs) \ JobsOfApplications)
        /\ Reported("Missing jobs mentioned in applications",
                    JobsOfApplications \ IdsOf(Jobs))
        /\ Reported("Candidates without scorecards",
                    IdsOf(Candidates) \ CandidatesOfScorecards)
        /\ Reported("Missing candidates mentioned in scorecards",
                    CandidatesOfScorecards \ IdsOf(Candidates))
        /\ Reported("Candidates without offers",
                    IdsOf(Candidates) \ CandidatesOfOffers)
        /\ Reported("Missing candidates mentioned in offers",
                    CandidatesOfOffers \ IdsOf(Candidates))
        /\ Reported("Applications without offers",
                    IdsOf(Applications) \ ApplicationsOfOffers)
        /\ Reported("Missing applications mentioned in offers",
                    ApplicationsOfOffers \ IdsOf(Applications))

\* the eight gap sets check_references does print are the set differences
PrintedGapSetsAreDifferences ==
    (ghost.op = "check" /\ pc = "done") =>
        /\ Reported("Candidates without applications",
                    IdsOf(Candidates) \ CandidatesOfApplications)
        /\ Reported("Missing candidates mentioned in applications",
                    CandidatesOfApplications \ IdsOf(Candidates))
        /\ Reported("Jobs without applications",
                    IdsOf(Jobs) \ JobsOfApplications)
        /\ Reported("Missing jobs mentioned in applications",
                    JobsOfApplications \ IdsOf(Jobs))
        /\ Reported("Candidates without scorecards",
                    IdsOf(Candidates) \ CandidatesOfScorecards)
        /\ Reported("Missing candidates mentioned in scorecards",
                    CandidatesOfScorecards \ IdsOf(Candidates))
        /\ Reported("Missing candidates mentioned in offers",
                    CandidatesOfOffers \ IdsOf(Candidates))
        /\ Reported("Missing applications mentioned in offers",
                    ApplicationsOfOffers \ IdsOf(Applications))
        /\ Len(stdout) = Len(Report(chk))
                         + Len(Concat([i \in 1..Len(Report(chk)) |->
                                 IF Len(Report(chk)[i][2]) <= member_limit
                                 THEN Report(chk)[i][2] ELSE <<>>]))

\* candidates {1,2,3}, applications of candidates {2,3,4}: {1} and {4}
GapExampleWitness ==
    /\ ghost.op = "check" /\ pc = "done"
    /\ IdsOf(Candidates) = {Str(1), Str(2), Str(3)}
    /\ CandidatesOfApplications = {Str(2), Str(3), Str(4)}
    /\ Reported("Candidates without applications", {Str(1)})
    /\ Reported("Missing candidates mentioned in applications", {Str(4)})

\* the index rows of kind k without their timestamp column
RowsSansTimestamp(d, k) ==
    IF IsNone(d.index[k]) THEN None
    ELSE Some([i \in 1..Len(Val(d.index[k])) |-> SubSeq(Val(d.index[k])[i], 1, 2)])

\* a fetch of the kind, and with the records, of the fetch right before it
\* has returned
SameFetchAgain ==
    /\ pc = "done" /\ ghost.op = "fetch"
    /\ ~IsNone(ghost.prevfetch)
    /\ Val(ghost.prevfetch).query = fetch.query
    /\ Val(ghost.prevfetch).records = Range(Val(fetch.result))

\* C13: when a kind-level fetch-and-save returns that got the records the
\* fetch-and-save of the same kind right before it got, the cache directory
\* is as the earlier run left it: the same entity files and index rows.
C13_SecondRunChangesNothing ==
    SameFetchAgain => disk = Val(ghost.prevfetch).disk

\* the entity files, the ids and the monikers are as the earlier run left them
SecondRunKeepsAllButTimestamps ==
    SameFetchAgain =>
        /\ disk.efiles = Val(ghost.prevfetch).disk.efiles
        /\ disk.dirs = Val(ghost.prevfetch).disk.dirs
        /\ \A k \in AllKinds :
               RowsSansTimestamp(disk, k) = RowsSansTimestamp(Val(ghost.prevfetch).disk, k)

\* the second run came a second or more after the first
LaterRerunWitness ==
    /\ SameFetchAgain
    /\ now > 0
    /\ Val(ghost.prevfetch).disk.index[fetch.query] # disk.index[fetch.query]

\* the entity file exists and holds a whole payload
Loadable(p) == Exists(disk.efiles, p) /\ ~IsNone(disk.efiles[p])

\* the attachment descriptors in the persisted records of the candidates the
\* candidate index lists, each with its candidate's id
IndexedAttachments ==
    UNION {{<<id, Val(disk.efiles[<<Candidates, id>>]).attachments[i]>> :
               i \in 1..Len(Val(disk.efiles[<<Candidates, id>>]).attachments)} :
              id \in {j \in IdsOf(Candidates) : Loadable(<<Candidates, j>>)}}

\* C14: when get_candidate_attachments has returned without an error, every
\* candidate of the candidate index has its record, and the content file and
\* the marker of every attachment descriptor of these records exist.
C14_SyncCompletesEveryAttachment ==
    (ghost.op = "sync" /\ pc = "done") =>
        /\ \A id \in IdsOf(Candidates) : Loadable(<<Candidates, id>>)
        /\ \A a \in IndexedAttachments : CandidateAttachmentExists(disk, a[1], a[2])

\* a run over two candidates with three attachments between them returned
C14_Witness ==
    /\ ghost.op = "sync" /\ pc = "done"
    /\ Cardinality(IdsOf(Candidates)) = 2
    /\ Cardinality(IndexedAttachments) = 3
    /\ ghost.rungets > 0

\* the batch holds entities of more than one kind
MixedBatch(b) == \E i \in 1..Len(b) : b[i].rest_name # b[1].rest_name
\* the position of the first entity whose kind is not that of the first one
FirstMismatch(b) ==
    CHOOSE i \in 1..Len(b) :
        /\ b[i].rest_name # b[1].rest_name
        /\ \A j \in 1..(i - 1) : b[j].rest_name = b[1].rest_name

\* C15: save_entities on a batch of more than one kind never gets past the
\* first entity of another kind, ends there with RuntimeError, and the index
\* file of every kind stays as it was when the save started.
C15_MixedBatchFails ==
    (ghost.op = "save" /\ MixedBatch(save.entities)) =>
        /\ pc \in {"save_entities", "save_loop", "dump", "failed"}
        /\ pc = "save_loop" => save.i <= FirstMismatch(save.entities)
        /\ pc = "dump" => save.i < FirstMismatch(save.entities)
        /\ pc = "failed" => err = "RuntimeError"
        /\ disk.index = ghost.disk0.index

\* a mixed batch failed on a cache that held an index of its first kind,
\* after the file of its first entity was written
C15_Witness ==
    /\ ghost.op = "save" /\ MixedBatch(save.entities)
    /\ pc = "failed" /\ err = "RuntimeError"
    /\ ~IsNone(disk.index[save.entities[1].rest_name])
    /\ disk.efiles # ghost.disk0.efiles

\* C16: when save_entities has returned, the index file of the kind is the
\* header row followed by one row for each id of the index it read and of the
\* batch, in strictly ascending string order of the ids.
C16_IndexSortedOnePerId ==
    (ghost.op = "save" /\ pc = "done") =>
        LET file == Val(disk.index[save.rest_name])
            ids == [i \in 1..(Len(file) - 1) |-> file[i + 1][1]]
        IN  /\ file[1] = HeaderRow
            /\ \A i \in 1..(Len(ids) - 1) : StrLess(ids[i], ids[i + 1])
            /\ Range(ids) = DOMAIN ReadIndex(ghost.disk0, save.rest_name)
                            \cup {Str(save.entities[i].data.id) :
                                     i \in 1..Len(save.entities)}

\* the index of the jobs 2 and 10, saved one after the other: 10 before 2
C16_Witness ==
    /\ ghost.op = "save" /\ pc = "done"
    /\ Len(save.entities) = 1
    /\ ~IsNone(ghost.disk0.index[Jobs])
    /\ Len(Val(disk.index[Jobs])) = 3
    /\ Val(disk.index[Jobs])[2][1] = Str(10)
    /\ Val(disk.index[Jobs])[3][1] = Str(2)

\* every save has returned, and the index of a kind lacks the id of an entity
\* whose file one of them wrote
LostUpdate ==
    /\ pc = "idle" /\ other.pc = "idle"
    /\ ghost.allok
    /\ \E k \in AllKinds : \E id \in DOMAIN ghost.saved[k] :
           /\ Exists(disk.efiles, <<k, id>>)
           /\ id \notin IdsOf(k)

\* C17: an update of the index is lost only if a writer was preempted inside
\* save_entities while another one ran; with two writers this happens.
C17_LostUpdateNeedsTwoWriters ==
    LostUpdate => ghost.overlap

\* two writers have saved one job each, and the index lists one of the two
C17_Witness ==
    /\ LostUpdate
    /\ ghost.overlap
    /\ ghost.nops = 2
    /\ Exists(disk.efiles, <<Jobs, Str(2)>>)
    /\ Exists(disk.efiles, <<Jobs, Str(10)>>)
    /\ Cardinality(IdsOf(Jobs)) = 1

\* C18: print_category prints one line with the title and the size of the
\* set, followed by one line per member, in sorted order, exactly when the
\* set has 1 to 25 members, and by nothing otherwise.
C18_MembersPrintedUpTo25 ==
    (ghost.op = "print" /\ pc = "done") =>
        LET n == Len(chk.members)
            sorted == Sorted(Range(chk.members))
        IN  /\ Len(stdout) >= 1
            /\ stdout[1] = <<chk.category_title, ":", " ">> \o Str(n)
            /\ IF 1 <= n /\ n <= 25
               THEN /\ Len(stdout) = n + 1
                    /\ \A i \in 1..n : stdout[i + 1] = <<" ", " ", " ", " ">> \o sorted[i]
               ELSE Len(stdout) = 1

\* a set of 25 members was printed in full
C18_Witness ==
    /\ ghost.op = "print" /\ pc = "done"
    /\ Len(chk.members) = 25
    /\ Len(stdout) = 26

\* of a set of 26 members only the size was printed
OverLimitWitness ==
    /\ ghost.op = "print" /\ pc = "done"
    /\ Len(chk.members) = 26
    /\ Len(stdout) = 1

Min(a, b) == IF a < b THEN a ELSE b

\* the entities of the running save whose summary has been recorded
Summarised ==
    {save.entities[i] : i \in 1..Min(save.i - 1, Len(save.entities))}

\* C19: the moniker save_entities records for a candidate is "first last"
\* when both names are present, the present name alone when one of them is
\* None, and the empty string when both are None.
C19_CandidateMoniker ==
    \A e \in Summarised :
        e.rest_name = Candidates =>
            LET m == save.new_entity_summary[Str(e.data.id)][2]
                first == e.data.first_name
                last == e.data.last_name
            IN  /\ (~IsNone(first) /\ ~IsNone(last)) =>
                       m = Val(first) \o <<" ">> \o Val(last)
                /\ (~IsNone(first) /\ IsNone(last)) => m = Val(first)
                /\ (IsNone(first) /\ ~IsNone(last)) => m = Val(last)
                /\ (IsNone(first) /\ IsNone(last)) => m = <<>>

\* a candidate without first name was saved under its last name, after one
\* without any name
C19_Witness ==
    /\ pc = "done"
    /\ \E e \in Summarised :
           /\ IsNone(e.data.first_name)
           /\ e.data.last_name = Some(<<"Lee">>)
           /\ save.new_entity_summary[Str(e.data.id)][2] = <<"Lee">>
    /\ \E id \in DOMAIN ghost.saved[Candidates] : ghost.saved[Candidates][id][2] = <<>>

\* C20: in check_references, past the loop over the application index, every
\* saved Application is decoded to (candidate_id, id of its first job, or the
\* empty string if it has no job), and the jobs referenced by applications
\* are those first jobs only; past the loop over the offer index, every saved
\* Offer is decoded to (candidate_id, application_id).
C20_MonikersDecodeToTheirIds ==
    ghost.op = "check" =>
        /\ pc # "check_applications" =>
               /\ \A d \in Persisted(Applications) :
                      /\ Str(d.id) \in DOMAIN chk.application_pairs
                      /\ chk.application_pairs[Str(d.id)] =
                             <<Str(d.candidate_id),
                               IF d.jobs = <<>> THEN <<>> ELSE Str(d.jobs[1].id)>>
               /\ chk.application_jobs = JobsOfApplications
               /\ chk.application_candidates = CandidatesOfApplications
        /\ pc \in {"check_print", "done"} =>
               \A d \in Persisted(Offers) :
                   /\ Str(d.id) \in DOMAIN chk.offer_pairs
                   /\ chk.offer_pairs[Str(d.id)] =
                          <<Str(d.candidate_id), Str(d.application_id)>>

\* the check returned on a cache with the application without jobs, the one
\* with two jobs, and an offer
C20_Witness ==
    /\ ghost.op = "check" /\ pc = "done"
    /\ {Str(12), Str(13)} \subseteq DOMAIN chk.application_pairs
    /\ Str(32) \in DOMAIN chk.offer_pairs
    /\ chk.application_pairs[Str(13)] = <<Str(4), <<>>>>
    /\ chk.application_pairs[Str(12)] = <<Str(3), Str(10)>>
    /\ chk.application_jobs = {Str(10)}
    /\ chk.offer_pairs[Str(32)] = <<Str(4), Str(14)>>

\* C21: when save_entities has returned, read_index gives back the mapping
\* write_index was called with, triple for triple, whatever the monikers
\* hold; so the entries the save carried over from the index it read are as
\* they were in that index.
C21_IndexRoundTrip ==
    (ghost.op = "save" /\ pc = "done") =>
        /\ ReadIndex(disk, save.rest_name) = save.entity_summary
        /\ \A id \in DOMAIN ReadIndex(ghost.disk0, save.rest_name)
                     \ DOMAIN save.new_entity_summary :
               ReadIndex(disk, save.rest_name)[id]
                   = ReadIndex(ghost.disk0, save.rest_name)[id]

\* the same for the mappings whose monikers hold no ','
RoundTripCommaFree ==
    (/\ ghost.op = "save" /\ pc = "done"
     /\ \A id \in DOMAIN save.entity_summary :
            ~Contains(save.entity_summary[id][2], ",")) =>
        ReadIndex(disk, save.rest_name) = save.entity_summary

\* the moniker of job 2, read back after a save of job 10 alone, has gained
\* two pairs of quotes
GrowingQuotesWitness ==
    /\ ghost.op = "save" /\ pc = "done"
    /\ save.rest_name = Jobs
    /\ Str(2) \in DOMAIN ReadIndex(disk, Jobs)
    /\ ReadIndex(disk, Jobs)[Str(2)][2]
           = Quote \o Quote \o <<"Dev", ",", "Ops">> \o Quote \o Quote

\* the latest GET on the attachment's url was answered with status 200
Got200(f) ==
    /\ Exists(ghost.downloaded, f)
    /\ \E r \in AttachmentResponses :
           r.status_code = 200 /\ r.content = ghost.downloaded[f]

\* C23: an attachment whose marker exists was last downloaded by a GET that
\* was answered with status 200.
C23_MarkerOnlyAfter200 ==
    \A a \in AllAttachments :
        Exists(disk.afiles, CompleteFilename(a[1], a[2])) =>
            Got200(AttachmentFilename(a[1], a[2]))

\* C24: a fetch whose first page is empty returns without error and the
\* cache directory is as it was when the fetch started.
C24_EmptyFetchIsNoError ==
    (/\ ghost.op = "fetch" /\ resplog # <<>>
     /\ resplog[1].status = 200 /\ resplog[1].body = <<>>) =>
        /\ pc # "failed"
        /\ disk = ghost.disk0

\* a fetch whose first page is empty leaves the cache directory as it was
EmptyFetchLeavesCacheUnchanged ==
    (/\ ghost.op = "fetch" /\ resplog # <<>>
     /\ resplog[1].status = 200 /\ resplog[1].body = <<>>) =>
        disk = ghost.disk0

\* such a fetch ended with IndexError on a cache that held entities
EmptyFetchFailsWitness ==
    /\ ghost.op = "fetch" /\ resplog # <<>>
    /\ resplog[1].status = 200 /\ resplog[1].body = <<>>
    /\ pc = "failed" /\ err = "IndexError"
    /\ disk # EmptyDisk

\* C22: whenever no process runs, after a crash at any step included, every
\* id that the index of a kind lists has its entity file, and the file holds
\* the whole record, so that it can be loaded.
C22_IndexedEntitiesLoadable ==
    pc = "idle" =>
        \A k \in AllKinds : \A id \in IdsOf(k) : Loadable(<<k, id>>)

\* in every state, every id that the index of a kind lists has its entity file
IndexedFilesPresent ==
    \A k \in AllKinds : \A id \in IdsOf(k) : Exists(disk.efiles, <<k, id>>)

\* a save was killed while it rewrote the file of an indexed entity
TornRecordWitness ==
    /\ pc = "idle"
    /\ ghost.ncrash = 1
    /\ \E k \in Kinds : \E id \in IdsOf(k) :
           Exists(disk.efiles, <<k, id>>) /\ IsNone(disk.efiles[<<k, id>>])
====
